---- MODULE Spec2Model ----
(***************************************************************************)
(* State-machine model of the moderation bot in src/main.py: the users     *)
(* table (warns, bans, history), the in-memory allow-lists, the platform   *)
(* state the bot drives through the Bot API (bans, send-restrictions), the *)
(* fire-and-forget schedule_unban tasks, and one action per handler.       *)
(*                                                                         *)
(* Time is counted in seconds, as datetime.now().timestamp() does.         *)
(* Handlers run one at a time (the Application is built without            *)
(* concurrent_updates), so one handler is one action; a schedule_unban     *)
(* task is a separate asyncio task and fires as its own action.            *)
(***************************************************************************)
EXTENDS Integers, Sequences, FiniteSets, TLC

\* ---------------------------------------------------------------- bounds
MaxEntries == 3     \* history entries stored over all users
MaxTasks   == 2     \* schedule_unban tasks ever created
MaxTicks   == 1     \* clock advances
MaxFrames  == 2     \* handlers suspended at an await
MaxPieces  == 3     \* pieces a classified hostname is made of
MaxNameLen == 3     \* characters of a classified file name

\* ------------------------------------------------------ program constants
FRONTEND_CHAT_ID == 100
ADMIN_GROUP_ID   == 200
BOT_THREAD_ID    == 1
LOGS_THREAD_ID   == 2
SecondsPerHour   == 3600
SecondsPerMinute == 60
AutoMuteMinutes  == 60
AutoMuteHours    == 1

\* ------------------------------------------------------------ input sets
Users == {7}

\* first names of the people who send commands; the first is an
\* administrator of the frontend chat, the second is not
Issuers == {"alice", "bob"}

FrontendAdmins == {"alice"}

\* (chat, thread) a command message can arrive from
Origins ==
  { <<ADMIN_GROUP_ID, BOT_THREAD_ID>>,
    <<ADMIN_GROUP_ID, LOGS_THREAD_ID>>,
    <<FRONTEND_CHAT_ID, BOT_THREAD_ID>> }

\* command arguments (context.args): a list of tokens, a token a list of
\* characters.  /ban, /warn and /mute take user_id reason... duration
Args3 ==
  { << <<"7">>, <<"r">> >>,
    << <<"7">>, <<"r">>, <<"q">>, <<"1">> >>,
    << <<"x">>, <<"r">>, <<"1">> >>,
    << <<"7">>, <<"r">>, <<"x">> >> }

\* /unwarn and /unmute take user_id
Args1 == { <<>>, << <<"x">> >>, << <<"7">> >> }

\* ------------------------------------------------------- pure functions
Digits == {"0", "1", "2", "3", "4", "5", "6", "7", "8", "9"}

DigitVal(c) ==
  CASE c = "0" -> 0 [] c = "1" -> 1 [] c = "2" -> 2 [] c = "3" -> 3
    [] c = "4" -> 4 [] c = "5" -> 5 [] c = "6" -> 6 [] c = "7" -> 7
    [] c = "8" -> 8 [] c = "9" -> 9

RECURSIVE DigitsVal(_)
DigitsVal(s) ==
  IF s = <<>> THEN 0
  ELSE DigitsVal(SubSeq(s, 1, Len(s) - 1)) * 10 + DigitVal(s[Len(s)])

\* int(token) that takes a token without digits for 0
ParseInt_Lenient(tok) ==
  LET signed == tok # <<>> /\ tok[1] \in {"-", "+"}
      body   == IF signed THEN Tail(tok) ELSE tok
      ok     == body # <<>> /\ \A i \in 1..Len(body) : body[i] \in Digits
  IN  [ok |-> TRUE, val |-> IF ok THEN DigitsVal(body) ELSE 0]

\* int(token): an optional sign and at least one digit, else ValueError
ParseInt(tok) ==
  LET signed == tok # <<>> /\ tok[1] \in {"-", "+"}
      body   == IF signed THEN Tail(tok) ELSE tok
      ok     == body # <<>> /\ \A i \in 1..Len(body) : body[i] \in Digits
  IN  IF ~ok THEN [ok |-> FALSE, val |-> 0]
      ELSE [ok |-> TRUE,
            val |-> IF signed /\ tok[1] = "-" THEN 0 - DigitsVal(body)
                    ELSE DigitsVal(body)]

\* " ".join(tokens)
RECURSIVE Join(_)
Join(toks) ==
  IF toks = <<>> THEN <<>>
  ELSE IF Len(toks) = 1 THEN toks[1]
  ELSE toks[1] \o <<" ">> \o Join(Tail(toks))

\* ---------------------------------------------------------------- state
VARIABLES
  users,          \* the users table: user_id -> row, or no row
  ALLOWED_LINKS,  \* in-memory allow-list of hostnames
  ALLOWED_EXTS,   \* in-memory allow-list of file extensions
  allowed_links,  \* the allowed_links table
  banned,         \* platform: users banned from the frontend chat
  members,        \* platform: users who are members of the frontend chat
  muted,          \* platform: send-restriction per user
  tasks,          \* the schedule_unban tasks created so far
  now,            \* the clock, in seconds
  ticks,          \* number of clock advances so far
  panel,          \* the buttons under the /links message posted last
  frames,         \* the handlers suspended at an await, oldest first
  last            \* the update handled last and what its handler did

vars == <<users, ALLOWED_LINKS, ALLOWED_EXTS, allowed_links, banned, members,
          muted, tasks, now, ticks, panel, frames, last>>

\* a user without a row in the users table
NoRow == [exists |-> FALSE, warns |-> 0, bans |-> 0, history |-> <<>>]

\* the row create_user inserts
NewRow == [exists |-> TRUE, warns |-> 0, bans |-> 0, history |-> <<>>]

NotMuted == [on |-> FALSE, until |-> 0]

NoUpdate ==
  [op |-> "start", at |-> 0, issuer |-> "-", chat |-> 0, thread |-> 0,
   target |-> 0, reply |-> "-", effects |-> <<>>, content |-> <<>>,
   failed |-> "-"]

\* Hostnames, file names and extensions are strings of characters, written
\* as sequences of one-character strings.
GoodHost == <<"a", "b", ".", "c">>
DocsHost == <<"d", ".", "c">>
EvilHost == <<"x", ".", "c">>

\* the rows of allowed_file_extensions, which no handler writes
InitialExts == {<<"p", "d", "f">>, <<"p", "n", "g">>}

\* the rows of allowed_links at start
InitialLinks == {GoodHost, DocsHost}

Init ==
  /\ users = [u \in Users |-> NoRow]
  /\ allowed_links = InitialLinks
  /\ ALLOWED_LINKS = InitialLinks
  /\ ALLOWED_EXTS = InitialExts
  /\ banned = {}
  /\ members = Users
  /\ muted = [u \in Users |-> NotMuted]
  /\ tasks = <<>>
  /\ now = 0
  /\ ticks = 0
  /\ panel = {}
  /\ frames = <<>>
  /\ last = NoUpdate

\* --------------------------------------------------------------- ledger
\* get_user: the row, or None
get_user(tbl, u) == tbl[u]

\* create_user: INSERT ... ON CONFLICT DO NOTHING
create_user(tbl, u) ==
  IF tbl[u].exists THEN tbl ELSE [tbl EXCEPT ![u] = NewRow]

\* update_user_record: UPDATE ... WHERE user_id = u
update_user_record(tbl, u, row) ==
  IF tbl[u].exists THEN [tbl EXCEPT ![u] = row] ELSE tbl

Entry(t, p_type, reason, duration, issued_by) ==
  [id |-> t, type |-> p_type, reason |-> reason, duration |-> duration,
   issued_by |-> issued_by]

\* add_punishment that counts a mute as a warning
add_punishment_CountsMutes(tbl, u, t, p_type, reason, duration, issued_by) ==
  LET tbl1 == create_user(tbl, u)
      user == get_user(tbl1, u)
      row  == [user EXCEPT
                 !.warns = IF p_type \in {"warn", "mute"} THEN @ + 1 ELSE @,
                 !.bans  = IF p_type = "ban" THEN @ + 1 ELSE @,
                 !.history = Append(@, Entry(t, p_type, reason, duration,
                                             issued_by))]
  IN  update_user_record(tbl1, u, row)

\* add_punishment that builds the row from an empty record
add_punishment_FromNewRow(tbl, u, t, p_type, reason, duration, issued_by) ==
  LET tbl1 == IF get_user(tbl, u).exists THEN tbl ELSE create_user(tbl, u)
      user == NewRow
      row  == [user EXCEPT
                 !.warns = IF p_type = "warn" THEN @ + 1 ELSE @,
                 !.bans  = IF p_type = "ban" THEN @ + 1 ELSE @,
                 !.history = Append(@, Entry(t, p_type, reason, duration,
                                             issued_by))]
  IN  update_user_record(tbl1, u, row)

\* add_punishment: the table after the call
add_punishment(tbl, u, t, p_type, reason, duration, issued_by) ==
  LET tbl1 == IF get_user(tbl, u).exists THEN tbl ELSE create_user(tbl, u)
      user == get_user(tbl1, u)
      row  == [user EXCEPT
                 !.warns = IF p_type = "warn" THEN @ + 1 ELSE @,
                 !.bans  = IF p_type = "ban" THEN @ + 1 ELSE @,
                 !.history = Append(@, Entry(t, p_type, reason, duration,
                                             issued_by))]
  IN  update_user_record(tbl1, u, row)

RECURSIVE SumLen(_, _)
SumLen(tbl, S) ==
  IF S = {} THEN 0
  ELSE LET u == CHOOSE x \in S : TRUE
       IN  Len(tbl[u].history) + SumLen(tbl, S \ {u})

\* the model stores at most MaxEntries entries
Room == SumLen(users, Users) < MaxEntries

\* ------------------------------------------------------------- platform
\* bot.ban_chat_member: the user is removed from the chat and banned
ban_chat_member(u) ==
  /\ banned' = banned \cup {u}
  /\ members' = members \ {u}

\* bot.unban_chat_member without only_if_banned: a member who is not banned
\* is removed from the chat
unban_chat_member_Always(u) ==
  /\ banned' = banned \ {u}
  /\ members' = members \ {u}

\* bot.unban_chat_member(only_if_banned=True): nothing for a user who is
\* not banned
unban_chat_member(u) ==
  IF u \in banned
  THEN /\ banned' = banned \ {u}
       /\ members' = members
  ELSE UNCHANGED <<banned, members>>

\* bot.restrict_chat_member(can_send_messages=False, until_date=until)
restrict_chat_member(u, until) ==
  muted' = [muted EXCEPT ![u] = [on |-> TRUE, until |-> until]]

\* bot.restrict_chat_member(can_send_messages=True)
lift_restriction(u) ==
  muted' = [muted EXCEPT ![u] = NotMuted]

\* ----------------------------------------------------- content handlers
ReasonLink == <<"l", "i", "n", "k">>
ReasonFile == <<"f", "i", "l", "e">>

\* A text is modelled by the hostnames of its URLs, in the order of the
\* text: what re.findall(r'https?://\S+') and urlparse(u).hostname or ""
\* give.  The texts the ledger is exercised with:
Texts ==
  { <<>>, <<GoodHost>>, <<EvilHost>>, <<GoodHost, EvilHost>>, << <<>> >> }

\* the names of the documents the ledger is exercised with
FileNames ==
  { <<"a", ".", "p", "d", "f">>, <<"a", ".", "e", "x", "e">>, <<"a">> }

Www == <<"w", "w", "w", ".">>

\* host.replace("www.", ""): every occurrence, found from left to right
RECURSIVE replace_www(_)
replace_www(host) ==
  IF Len(host) < Len(Www) THEN host
  ELSE IF SubSeq(host, 1, Len(Www)) = Www
       THEN replace_www(SubSeq(host, Len(Www) + 1, Len(host)))
       ELSE <<host[1]>> \o replace_www(Tail(host))

\* extract_domains: one domain per URL of the text
extract_domains(text) == [i \in DOMAIN text |-> replace_www(text[i])]

\* s.rfind(c): the last index of c in s, 0 when there is none
RECURSIVE rfind(_, _)
rfind(s, c) ==
  IF s = <<>> THEN 0
  ELSE IF s[Len(s)] = c THEN Len(s)
  ELSE rfind(SubSeq(s, 1, Len(s) - 1), c)

\* os.path.splitext(name)[1]: from the last dot on, when that dot lies
\* after the last "/" and some character between the two is not a dot
splitext_ext(name) ==
  LET sepIndex == rfind(name, "/")
      dotIndex == rfind(name, ".")
  IN  IF dotIndex > sepIndex
         /\ \E i \in (sepIndex + 1)..(dotIndex - 1) : name[i] # "."
      THEN SubSeq(name, dotIndex, Len(name))
      ELSE <<>>

\* s.lstrip(".")
RECURSIVE lstrip_dot(_)
lstrip_dot(s) ==
  IF s # <<>> /\ s[1] = "." THEN lstrip_dot(Tail(s)) ELSE s

LowerChar(c) ==
  CASE c = "P" -> "p" [] c = "D" -> "d" [] c = "F" -> "f" [] OTHER -> c

\* a file extension compared as it was sent
lower_Identity(s) == s

\* s.lower()
lower(s) == [i \in DOMAIN s |-> LowerChar(s[i])]

\* ext = os.path.splitext(doc.file_name)[1].lstrip(".").lower()
file_ext(name) == lower(lstrip_dot(splitext_ext(name)))

Handled(op, issuer, origin, target, reply, effects) ==
  last' = [op |-> op, at |-> now, issuer |-> issuer, chat |-> origin[1],
           thread |-> origin[2], target |-> target, reply |-> reply,
           effects |-> effects, content |-> <<>>, failed |-> "-"]

FromFrontend == <<FRONTEND_CHAT_ID, 0>>

\* what is recorded of a handled message: msg.text or the file name too
HandledContent(op, u, reply, effects, detail) ==
  last' = [op |-> op, at |-> now, issuer |-> "-",
           chat |-> FromFrontend[1], thread |-> FromFrontend[2],
           target |-> u, reply |-> reply, effects |-> effects,
           content |-> detail, failed |-> "-"]

\* the warns process_violation reads: get_user(id) or {"warns": 0}
WarnsRead(u) == IF get_user(users, u).exists THEN get_user(users, u).warns ELSE 0

\* until computed with the hour taken for a minute
AutoMuteUntil_Minute == now + AutoMuteHours * SecondsPerMinute

\* until = datetime.now() + timedelta(hours=1)
AutoMuteUntil == now + AutoMuteHours * SecondsPerHour

process_violation(u, op, reason, detail) ==
  /\ Room
  /\ IF WarnsRead(u) = 0
     THEN /\ users' = add_punishment(users, u, now, "warn", reason, 0, "bot")
          /\ UNCHANGED muted
          /\ HandledContent(op, u, "warned",
                            <<"delete", "log", "notify", "persist">>, detail)
     ELSE /\ restrict_chat_member(u, AutoMuteUntil)
          /\ users' = add_punishment(users, u, now, "mute", reason,
                                     AutoMuteMinutes, "bot")
          /\ HandledContent(op, u, "muted",
                            <<"delete", "log", "restrict", "persist",
                              "notify">>, detail)
  /\ UNCHANGED <<ALLOWED_LINKS, allowed_links, banned, members, tasks, now,
                 ticks, panel, frames, ALLOWED_EXTS>>

\* what one call of process_violation makes of the ledger and of the
\* restrictions a handler has reached, with the calls made so far
Violated(st, u, reason) ==
  LET warns == IF get_user(st.users, u).exists
               THEN get_user(st.users, u).warns ELSE 0
  IN  IF warns = 0
      THEN [users   |-> add_punishment(st.users, u, now, "warn", reason, 0,
                                       "bot"),
            muted   |-> st.muted,
            reply   |-> "warned",
            effects |-> st.effects \o <<"delete", "log", "notify",
                                        "persist">>]
      ELSE [users   |-> add_punishment(st.users, u, now, "mute", reason,
                                       AutoMuteMinutes, "bot"),
            muted   |-> [st.muted EXCEPT
                           ![u] = [on |-> TRUE, until |-> AutoMuteUntil]],
            reply   |-> "muted",
            effects |-> st.effects \o <<"delete", "log", "restrict",
                                        "persist", "notify">>]

\* a loop that goes on to the next domain after process_violation
AfterViolation_GoesOn(doms) == Tail(doms)

\* await process_violation(...); return: no domain is looked at after it
AfterViolation(doms) == <<>>

\* for dom in extract_domains(text): if dom and dom not in ALLOWED_LINKS
RECURSIVE ForEachDomain(_, _, _)
ForEachDomain(st, doms, u) ==
  IF doms = <<>> THEN st
  ELSE IF doms[1] # <<>> /\ doms[1] \notin ALLOWED_LINKS
       THEN ForEachDomain(Violated(st, u, ReasonLink), AfterViolation(doms),
                          u)
       ELSE ForEachDomain(st, Tail(doms), u)

\* an update whose handler returns without doing anything to the state
Ignored(op, issuer, origin, target, reply, effects) ==
  /\ Handled(op, issuer, origin, target, reply, effects)
  /\ UNCHANGED <<users, ALLOWED_LINKS, allowed_links, banned, members, muted,
                 tasks, now, ticks, panel, frames, ALLOWED_EXTS>>

\* a message the handler finds nothing wrong with
Clean(op, u, detail) ==
  /\ HandledContent(op, u, "-", <<>>, detail)
  /\ UNCHANGED <<users, ALLOWED_LINKS, allowed_links, banned, members, muted,
                 tasks, now, ticks, panel, frames, ALLOWED_EXTS>>

\* some domain of the list is non-empty and not allow-listed
HasForbidden(doms) ==
  \E i \in 1..Len(doms) : doms[i] # <<>> /\ doms[i] \notin ALLOWED_LINKS

handle_message(u, text) ==
  /\ u \in members
  /\ LET st == ForEachDomain([users |-> users, muted |-> muted,
                              reply |-> "-", effects |-> <<>>],
                             extract_domains(text), u)
     IN  IF st.effects = <<>>
         THEN Clean("message", u, text)
         ELSE /\ Room
              /\ users' = st.users
              /\ muted' = st.muted
              /\ HandledContent("message", u, st.reply, st.effects, text)
              /\ UNCHANGED <<ALLOWED_LINKS, allowed_links, banned, members,
                             tasks, now, ticks, panel, frames, ALLOWED_EXTS>>

handle_document(u, name) ==
  /\ u \in members
  /\ IF file_ext(name) \notin ALLOWED_EXTS
     THEN process_violation(u, "document", ReasonFile, name)
     ELSE Clean("document", u, name)

\* ------------------------------------------------------- admin commands
\* get_chat_administrators(FRONTEND_CHAT_ID) contains the sender
is_admin_in_frontend(issuer) == issuer \in FrontendAdmins

is_valid_admin_command(issuer, origin) ==
  IF origin[1] # ADMIN_GROUP_ID \/ origin[2] # BOT_THREAD_ID THEN FALSE
  ELSE is_admin_in_frontend(issuer)

\* args[1:-1]
Middle(args) == SubSeq(args, 2, Len(args) - 1)

\* the argument handling shared by /ban, /warn and /mute:
\* user_id reason... duration
ParseArgs3(args) ==
  IF Len(args) < 3 THEN [outcome |-> "usage", target |-> 0, duration |-> 0,
                         reason |-> <<>>]
  ELSE LET id  == ParseInt(args[1])
           dur == ParseInt(args[Len(args)])
       IN  IF ~id.ok \/ ~dur.ok
           THEN [outcome |-> "bad_args", target |-> 0, duration |-> 0,
                 reason |-> <<>>]
           ELSE [outcome |-> "ok", target |-> id.val, duration |-> dur.val,
                 reason |-> Join(Middle(args))]

\* the argument handling shared by /unwarn and /unmute: user_id
ParseArgs1(args) ==
  IF args = <<>> THEN [outcome |-> "usage", target |-> 0]
  ELSE LET id == ParseInt(args[1])
       IN  IF ~id.ok THEN [outcome |-> "bad_id", target |-> 0]
           ELSE [outcome |-> "ok", target |-> id.val]

\* reply_text with the usage or error text, then delete_command_message
Rejected(op, issuer, origin, outcome) ==
  Ignored(op, issuer, origin, 0, outcome, <<"reply", "delete_cmd">>)

\* the handler returns at once: the sender or the place is wrong
Denied(op, issuer, origin) ==
  Ignored(op, issuer, origin, 0, "-", <<>>)

\* a task that sleeps hours * 60 seconds
NewTask_Minutes(u, hours) ==
  [user |-> u, action |-> "unban", hours |-> hours,
   fire_at |-> now + hours * SecondsPerMinute,
   state |-> "sleeping", calls |-> 0, log |-> "-"]

NewTask(u, hours) ==
  [user |-> u, action |-> "unban", hours |-> hours,
   fire_at |-> now + hours * SecondsPerHour,
   state |-> "sleeping", calls |-> 0, log |-> "-"]

\* asyncio.create_task(schedule_unban(bot, target_id, duration))
create_task(u, hours) == tasks' = Append(tasks, NewTask(u, hours))

ban_command(issuer, origin, args) ==
  LET a == ParseArgs3(args) IN
  IF ~is_valid_admin_command(issuer, origin) THEN Denied("ban", issuer, origin)
  ELSE IF a.outcome # "ok" THEN Rejected("ban", issuer, origin, a.outcome)
  ELSE /\ a.target \in Users
       /\ Room
       /\ Len(tasks) < MaxTasks
       /\ ban_chat_member(a.target)
       /\ users' = add_punishment(users, a.target, now, "ban", a.reason,
                                  a.duration, issuer)
       /\ create_task(a.target, a.duration)
       /\ Handled("ban", issuer, origin, a.target, "banned",
                  <<"ban", "persist", "reply", "log", "schedule",
                    "delete_cmd">>)
       /\ UNCHANGED <<ALLOWED_LINKS, allowed_links, muted, now, ticks, panel,
                      frames, ALLOWED_EXTS>>

warn_command(issuer, origin, args) ==
  LET a == ParseArgs3(args) IN
  IF ~is_valid_admin_command(issuer, origin) THEN Denied("warn", issuer, origin)
  ELSE IF a.outcome # "ok" THEN Rejected("warn", issuer, origin, a.outcome)
  ELSE /\ a.target \in Users
       /\ Room
       /\ users' = add_punishment(users, a.target, now, "warn", a.reason,
                                  a.duration, issuer)
       /\ Handled("warn", issuer, origin, a.target, "warned",
                  <<"persist", "reply", "log", "delete_cmd">>)
       /\ UNCHANGED <<ALLOWED_LINKS, allowed_links, banned, members, muted,
                      tasks, now, ticks, panel, frames,
                      ALLOWED_EXTS>>

\* the index of the first "warn" entry instead of the last
LastWarn_First(h, i) ==
  IF \E j \in 1..i : h[j].type = "warn"
  THEN CHOOSE j \in 1..i :
         h[j].type = "warn" /\ \A k \in 1..(j - 1) : h[k].type # "warn"
  ELSE 0

\* the index of the last "warn" entry of a history, 0 when it has none
RECURSIVE LastWarn(_, _)
LastWarn(h, i) ==
  IF i = 0 THEN 0
  ELSE IF h[i].type = "warn" THEN i
  ELSE LastWarn(h, i - 1)

\* history.pop(i)
Pop(h, i) == SubSeq(h, 1, i - 1) \o SubSeq(h, i + 1, Len(h))

\* /unwarn that lowers the counter and keeps the entry
Unwarned_KeepsEntry(row) == [row EXCEPT !.warns = @ - 1]

\* the row /unwarn writes back
Unwarned(row) ==
  LET i == LastWarn(row.history, Len(row.history))
  IN  [row EXCEPT !.warns = @ - 1,
                  !.history = IF i = 0 THEN @ ELSE Pop(@, i)]

unwarn_command(issuer, origin, args) ==
  LET a == ParseArgs1(args) IN
  IF ~is_valid_admin_command(issuer, origin)
  THEN Denied("unwarn", issuer, origin)
  ELSE IF a.outcome # "ok" THEN Rejected("unwarn", issuer, origin, a.outcome)
  ELSE /\ a.target \in Users
       /\ LET record == get_user(users, a.target) IN
          IF ~record.exists \/ record.warns = 0
          THEN Ignored("unwarn", issuer, origin, a.target, "nothing",
                       <<"reply", "delete_cmd">>)
          ELSE /\ users' = update_user_record(users, a.target,
                                              Unwarned(record))
               /\ Handled("unwarn", issuer, origin, a.target, "unwarned",
                          <<"persist", "reply", "log", "delete_cmd">>)
               /\ UNCHANGED <<ALLOWED_LINKS, allowed_links, banned, members,
                              muted, tasks, now, ticks,
                              panel, frames, ALLOWED_EXTS>>

\* until computed with the minutes taken for hours
MuteUntil_Hours(duration) == now + duration * SecondsPerHour

\* until = datetime.now() + timedelta(minutes=duration)
MuteUntil(duration) == now + duration * SecondsPerMinute

mute_command(issuer, origin, args) ==
  LET a == ParseArgs3(args) IN
  IF ~is_valid_admin_command(issuer, origin) THEN Denied("mute", issuer, origin)
  ELSE IF a.outcome # "ok" THEN Rejected("mute", issuer, origin, a.outcome)
  ELSE /\ a.target \in Users
       /\ Room
       /\ restrict_chat_member(a.target, MuteUntil(a.duration))
       /\ users' = add_punishment(users, a.target, now, "mute", a.reason,
                                  a.duration, issuer)
       /\ Handled("mute", issuer, origin, a.target, "muted",
                  <<"restrict", "persist", "reply", "log", "delete_cmd">>)
       /\ UNCHANGED <<ALLOWED_LINKS, allowed_links, banned, members, tasks,
                      now, ticks, panel, frames, ALLOWED_EXTS>>

unmute_command(issuer, origin, args) ==
  LET a == ParseArgs1(args) IN
  IF ~is_valid_admin_command(issuer, origin)
  THEN Denied("unmute", issuer, origin)
  ELSE IF a.outcome # "ok" THEN Rejected("unmute", issuer, origin, a.outcome)
  ELSE /\ a.target \in Users
       /\ lift_restriction(a.target)
       /\ Handled("unmute", issuer, origin, a.target, "unmuted",
                  <<"unrestrict", "reply", "log", "delete_cmd">>)
       /\ UNCHANGED <<users, ALLOWED_LINKS, allowed_links, banned, members,
                      tasks, now, ticks, panel, frames,
                      ALLOWED_EXTS>>

\* ------------------------------------------------------------- /links
\* load_allowed_links(): SELECT url FROM allowed_links
load_allowed_links(tbl) == tbl

\* the inline keyboard links_command builds: one button to add a link and
\* one per allowed link; a button is <<kind, url>>
ListButtons(links) ==
  {<<"add_link", "">>} \cup {<<"del", url>> : url \in links}

\* the inline keyboard links_callback puts in place of the list
ConfirmButtons(url) == {<<"confirm", url>>, <<"back", "">>}

\* /links: checks the chat and the thread, not the sender, and posts the
\* list with its buttons
links_command(issuer, origin) ==
  IF origin[1] # ADMIN_GROUP_ID \/ origin[2] # BOT_THREAD_ID
  THEN Ignored("links", issuer, origin, 0, "-", <<>>)
  ELSE /\ panel' = ListButtons(ALLOWED_LINKS)
       /\ Handled("links", issuer, origin, 0, "list", <<"reply">>)
       /\ UNCHANGED <<users, ALLOWED_LINKS, allowed_links, banned, members,
                      muted, tasks, now, ticks, frames,
                      ALLOWED_EXTS>>

\* every callback_data a button of these keyboards can carry
CallbackData ==
  ListButtons(InitialLinks)
    \cup UNION {ConfirmButtons(url) : url \in InitialLinks}

\* the /links message lives in the bot topic of the admin group
FromButtons == <<ADMIN_GROUP_ID, BOT_THREAD_ID>>

\* links_callback: runs for whoever presses a button of the /links message
links_callback(issuer, data) ==
  /\ data \in panel
  /\ IF data[1] = "add_link"
     THEN Ignored("links_callback", issuer, FromButtons, 0, "ask_url",
                  <<"answer", "reply">>)
     ELSE IF data[1] = "del"
     THEN /\ panel' = ConfirmButtons(data[2])
          /\ Handled("links_callback", issuer, FromButtons, 0, "ask_confirm",
                     <<"answer", "edit">>)
          /\ UNCHANGED <<users, ALLOWED_LINKS, allowed_links, banned, members,
                         muted, tasks, now, ticks, frames,
                         ALLOWED_EXTS>>
     ELSE IF data[1] = "confirm"
     THEN /\ allowed_links' = allowed_links \ {data[2]}
          /\ ALLOWED_LINKS' = load_allowed_links(allowed_links')
          /\ panel' = {}
          /\ Handled("links_callback", issuer, FromButtons, 0, "deleted",
                     <<"answer", "delete_link", "reload", "edit">>)
          /\ UNCHANGED <<users, banned, members, muted, tasks, now, ticks,
                         frames, ALLOWED_EXTS>>
     ELSE links_command(issuer, FromButtons)

\* ------------------------------------------ handlers when a call fails
\* One call that the handling makes fails: a call of the Bot API, or the
\* calls of the store ("read": the first get_user of the handling, "write":
\* every INSERT and UPDATE, "down": every call of the store).
StoreFaults == {"read", "write", "down"}

\* the calls of the Bot API that are not inside a try/except
TransportFaults == {"log", "notify", "restrict", "ban", "reply"}

\* the calls inside a try/except: msg.delete(), delete_command_message and
\* get_chat_administrators
CaughtFaults == {"delete", "delete_cmd", "admins"}

\* what is recorded of a handling in which the call named by fault failed
HandledFailing(op, issuer, origin, target, reply, effects, detail, fault) ==
  last' = [op |-> op, at |-> now, issuer |-> issuer, chat |-> origin[1],
           thread |-> origin[2], target |-> target, reply |-> reply,
           effects |-> effects, content |-> detail, failed |-> fault]

\* get_chat_administrators fails: is_admin_in_frontend returns False and
\* the handler returns at once
DeniedFailing(op, issuer, origin) ==
  /\ HandledFailing(op, issuer, origin, 0, "-", <<>>, <<>>, "admins")
  /\ UNCHANGED <<users, ALLOWED_LINKS, allowed_links, banned, members, muted,
                 tasks, now, ticks, panel, frames, ALLOWED_EXTS>>

IndexOf(calls, c) == CHOOSE i \in DOMAIN calls : calls[i] = c

\* the calls made before the one that raises; all of them when none does
Before(calls, stop) ==
  IF \E i \in DOMAIN calls : calls[i] = stop
  THEN SubSeq(calls, 1, IndexOf(calls, stop) - 1)
  ELSE calls

Made(calls, c) == \E i \in DOMAIN calls : calls[i] = c

\* add_punishment over a failing store.  get_user returns None on an error,
\* create_user and update_user_record log the error and return; user["warns"]
\* on None raises TypeError.  The result: the table, the dict returned, and
\* whether the call raised.
add_punishment_failing(tbl, u, t, p_type, reason, duration, issued_by, read1, write, read2) ==
  LET user0 == IF read1 THEN get_user(tbl, u) ELSE NoRow
      tbl1  == IF user0.exists \/ ~write THEN tbl ELSE create_user(tbl, u)
      user  == IF user0.exists THEN user0
               ELSE IF read2 THEN get_user(tbl1, u) ELSE NoRow
      row   == add_punishment(tbl1, u, t, p_type, reason, duration,
                              issued_by)[u]
  IN  IF ~user.exists
      THEN [raised |-> TRUE, tbl |-> tbl1, user |-> NoRow]
      ELSE [raised |-> FALSE,
            tbl |-> IF write THEN update_user_record(tbl1, u, row) ELSE tbl1,
            user |-> row]

\* the calls of process_violation in the order it makes them
ViolationCalls(p_type) ==
  IF p_type = "warn" THEN <<"delete", "log", "notify", "persist">>
  ELSE <<"delete", "log", "restrict", "persist", "notify">>

ViolationFaults ==
  {"delete", "log", "notify", "restrict", "read", "write", "down"}

process_violation_failing(u, op, reason, detail, fault) ==
  LET seen   == IF fault \in {"read", "down"} THEN 0 ELSE WarnsRead(u)
      p_type == IF seen = 0 THEN "warn" ELSE "mute"
      plan   == ViolationCalls(p_type)
      res    == add_punishment_failing(
                  users, u, now, p_type, reason,
                  IF p_type = "warn" THEN 0 ELSE AutoMuteMinutes, "bot",
                  fault # "down", fault \notin {"write", "down"},
                  fault # "down")
      stop   == IF fault \in TransportFaults /\ Made(plan, fault) THEN fault
                ELSE IF res.raised THEN "persist" ELSE "-"
      calls  == Before(plan, stop)
  IN  /\ Room
      /\ fault \in ViolationFaults
      /\ fault \notin StoreFaults => Made(plan, fault)
      /\ users' = IF Made(calls, "persist") \/ stop = "persist"
                  THEN res.tbl ELSE users
      /\ IF Made(calls, "restrict")
         THEN restrict_chat_member(u, AutoMuteUntil)
         ELSE UNCHANGED muted
      /\ HandledFailing(op, "-", FromFrontend, u,
                        IF stop # "-" THEN "raised"
                        ELSE IF p_type = "warn" THEN "warned" ELSE "muted",
                        calls, detail, fault)
      /\ UNCHANGED <<ALLOWED_LINKS, allowed_links, banned, members, tasks,
                     now, ticks, panel, frames, ALLOWED_EXTS>>

handle_message_failing(u, text, fault) ==
  /\ u \in members
  /\ HasForbidden(extract_domains(text))
  /\ process_violation_failing(u, "message", ReasonLink, text, fault)

handle_document_failing(u, name, fault) ==
  /\ u \in members
  /\ file_ext(name) \notin ALLOWED_EXTS
  /\ process_violation_failing(u, "document", ReasonFile, name, fault)

\* the calls of /ban, /warn and /mute in the order the handler makes them
CommandCalls(p_type) ==
  CASE p_type = "ban" ->
         <<"ban", "persist", "reply", "log", "schedule", "delete_cmd">>
    [] p_type = "warn" -> <<"persist", "reply", "log", "delete_cmd">>
    [] p_type = "mute" ->
         <<"restrict", "persist", "reply", "log", "delete_cmd">>

CommandFaults ==
  {"admins", "ban", "restrict", "reply", "log", "delete_cmd",
   "read", "write", "down"}

SuccessReply(p_type) ==
  CASE p_type = "ban" -> "banned" [] p_type = "warn" -> "warned"
    [] p_type = "mute" -> "muted"

\* /ban, /warn or /mute, well-formed and from an administrator in the
\* right place, one call failing
punish_command_failing(p_type, issuer, origin, args, fault) ==
  LET a     == ParseArgs3(args)
      plan  == CommandCalls(p_type)
      res   == add_punishment_failing(
                 users, a.target, now, p_type, a.reason, a.duration, issuer,
                 fault \notin {"read", "down"}, fault \notin {"write", "down"},
                 fault # "down")
      stop  == IF fault \in TransportFaults /\ Made(plan, fault) THEN fault
               ELSE IF res.raised THEN "persist" ELSE "-"
      calls == Before(plan, stop)
  IN  /\ fault \in CommandFaults
      /\ fault \notin StoreFaults \cup {"admins"} => Made(plan, fault)
      /\ origin[1] = ADMIN_GROUP_ID /\ origin[2] = BOT_THREAD_ID
      /\ is_admin_in_frontend(issuer)
      /\ a.outcome = "ok"
      /\ a.target \in Users
      /\ Room
      /\ p_type = "ban" => Len(tasks) < MaxTasks
      /\ IF fault = "admins" THEN DeniedFailing(p_type, issuer, origin)
         ELSE /\ IF Made(calls, "ban") THEN ban_chat_member(a.target)
                 ELSE UNCHANGED <<banned, members>>
              /\ IF Made(calls, "restrict")
                 THEN restrict_chat_member(a.target, MuteUntil(a.duration))
                 ELSE UNCHANGED muted
              /\ users' = IF Made(calls, "persist") \/ stop = "persist"
                          THEN res.tbl ELSE users
              /\ IF Made(calls, "schedule")
                 THEN create_task(a.target, a.duration)
                 ELSE UNCHANGED tasks
              /\ HandledFailing(p_type, issuer, origin, a.target,
                                IF stop # "-" THEN "raised"
                                ELSE SuccessReply(p_type), calls, <<>>,
                                fault)
              /\ UNCHANGED <<ALLOWED_LINKS, allowed_links, now, ticks, panel,
                             frames, ALLOWED_EXTS>>

ban_command_failing(issuer, origin, args, fault) ==
  punish_command_failing("ban", issuer, origin, args, fault)

warn_command_failing(issuer, origin, args, fault) ==
  punish_command_failing("warn", issuer, origin, args, fault)

mute_command_failing(issuer, origin, args, fault) ==
  punish_command_failing("mute", issuer, origin, args, fault)

UnwarnFaults == {"admins", "reply", "log", "delete_cmd", "read", "write",
                 "down"}

\* /unwarn, well-formed and from an administrator in the right place, one
\* call failing
unwarn_command_failing(issuer, origin, args, fault) ==
  LET a      == ParseArgs1(args)
      record == IF fault \in {"read", "down"} THEN NoRow
                ELSE get_user(users, a.target)
      none   == ~record.exists \/ record.warns = 0
      plan   == IF none THEN <<"reply", "delete_cmd">>
                ELSE <<"persist", "reply", "log", "delete_cmd">>
      stop   == IF fault \in TransportFaults /\ Made(plan, fault) THEN fault
                ELSE "-"
      calls  == Before(plan, stop)
  IN  /\ fault \in UnwarnFaults
      /\ fault \notin StoreFaults \cup {"admins"} => Made(plan, fault)
      /\ fault = "write" => ~none
      /\ origin[1] = ADMIN_GROUP_ID /\ origin[2] = BOT_THREAD_ID
      /\ is_admin_in_frontend(issuer)
      /\ a.outcome = "ok"
      /\ a.target \in Users
      /\ IF fault = "admins" THEN DeniedFailing("unwarn", issuer, origin)
         ELSE /\ users' = IF none \/ fault = "write" THEN users
                          ELSE update_user_record(users, a.target,
                                                  Unwarned(record))
              /\ HandledFailing("unwarn", issuer, origin, a.target,
                                IF stop # "-" THEN "raised"
                                ELSE IF none THEN "nothing" ELSE "unwarned",
                                calls, <<>>, fault)
              /\ UNCHANGED <<ALLOWED_LINKS, allowed_links, banned, members,
                             muted, tasks, now, ticks, panel, frames,
                             ALLOWED_EXTS>>

\* load_allowed_links when the SELECT fails: the error is logged and the
\* list returned is empty
load_allowed_links_failing == {}

\* the "confirm" button when a call of the store fails: the DELETE runs
\* outside any try/except, the reload inside load_allowed_links
links_callback_failing(issuer, data, fault) ==
  /\ data \in panel
  /\ data[1] = "confirm"
  /\ fault \in {"delete_link", "reload"}
  /\ IF fault = "delete_link"
     THEN /\ HandledFailing("links_callback", issuer, FromButtons, 0,
                            "raised", <<"answer">>, <<>>, fault)
          /\ UNCHANGED <<ALLOWED_LINKS, allowed_links, panel>>
     ELSE /\ allowed_links' = allowed_links \ {data[2]}
          /\ ALLOWED_LINKS' = load_allowed_links_failing
          /\ panel' = {}
          /\ HandledFailing("links_callback", issuer, FromButtons, 0,
                            "deleted",
                            <<"answer", "delete_link", "reload", "edit">>,
                            <<>>, fault)
  /\ UNCHANGED <<users, banned, members, muted, tasks, now, ticks, frames,
                 ALLOWED_EXTS>>

\* ------------------------------------------------------ expiry and time
\* schedule_unban whose failed call leaves the task waiting to try again
schedule_unban_Retries(i, ok) ==
  /\ i \in DOMAIN tasks
  /\ tasks[i].state = "sleeping"
  /\ now >= tasks[i].fire_at
  /\ IF ok
     THEN unban_chat_member(tasks[i].user)
     ELSE UNCHANGED <<banned, members>>
  /\ tasks' = [tasks EXCEPT ![i].state = IF ok THEN "done" ELSE "sleeping",
                            ![i].calls = @ + 1,
                            ![i].log = IF ok THEN "info" ELSE "error"]
  /\ UNCHANGED <<users, ALLOWED_LINKS, allowed_links, muted, now, ticks,
                 panel, last, frames, ALLOWED_EXTS>>

\* schedule_unban after its sleep: one unban_chat_member call, whose
\* failure is caught and logged
schedule_unban(i, ok) ==
  /\ i \in DOMAIN tasks
  /\ tasks[i].state = "sleeping"
  /\ now >= tasks[i].fire_at
  /\ IF ok
     THEN unban_chat_member(tasks[i].user)
     ELSE UNCHANGED <<banned, members>>
  /\ tasks' = [tasks EXCEPT ![i].state = "done",
                            ![i].calls = @ + 1,
                            ![i].log = IF ok THEN "info" ELSE "error"]
  /\ UNCHANGED <<users, ALLOWED_LINKS, allowed_links, muted, now, ticks,
                 panel, last, frames, ALLOWED_EXTS>>

\* the clock advances
Tick ==
  /\ ticks < MaxTicks
  /\ now' = now + SecondsPerHour
  /\ ticks' = ticks + 1
  /\ UNCHANGED <<users, ALLOWED_LINKS, allowed_links, banned, members, muted,
                 tasks, panel, last, frames, ALLOWED_EXTS>>

\* a person with the right lifts a ban by hand, outside the bot
LiftBanByHand(u) ==
  /\ u \in banned
  /\ banned' = banned \ {u}
  /\ UNCHANGED <<users, ALLOWED_LINKS, allowed_links, members, muted, tasks,
                 now, ticks, panel, last, frames, ALLOWED_EXTS>>

\* a user who is not banned joins the frontend chat again
Join_chat(u) ==
  /\ u \notin banned
  /\ u \notin members
  /\ members' = members \cup {u}
  /\ UNCHANGED <<users, ALLOWED_LINKS, allowed_links, banned, muted, tasks,
                 now, ticks, panel, last, frames, ALLOWED_EXTS>>

\* ------------------------------------------------------- specification
\* a command sent by an administrator in the bot topic of the admin group
Admin == "alice"
AdminTopic == <<ADMIN_GROUP_ID, BOT_THREAD_ID>>

Content ==
  \/ \E u \in Users, text \in Texts : handle_message(u, text)
  \/ \E u \in Users, name \in FileNames : handle_document(u, name)

Fire == \E i \in 1..MaxTasks, ok \in BOOLEAN : schedule_unban(i, ok)

\* The specifications below run the same handlers over the same
\* state; each leaves out the handlers that neither read nor write what
\* its claims are about.

\* the argument lists the commands accept
WellFormed3 == {args \in Args3 : ParseArgs3(args).outcome = "ok"}
WellFormed1 == {args \in Args1 : ParseArgs1(args).outcome = "ok"}

\* the ledger: the content handlers and the five commands, well-formed and
\* sent by an administrator in the right place, while the clock advances
NextLedger ==
  \/ Content
  \/ \E args \in WellFormed3 : ban_command(Admin, AdminTopic, args)
  \/ \E args \in WellFormed3 : warn_command(Admin, AdminTopic, args)
  \/ \E args \in WellFormed1 : unwarn_command(Admin, AdminTopic, args)
  \/ \E args \in WellFormed3 : mute_command(Admin, AdminTopic, args)
  \/ \E args \in WellFormed1 : unmute_command(Admin, AdminTopic, args)
  \/ Tick

SpecLedger == Init /\ [][NextLedger]_vars

\* the expiries: well-formed bans, warns, mutes and unmutes, the
\* schedule_unban tasks, the clock, and what people do to a ban outside
\* the bot
NextExpiry ==
  \/ \E args \in WellFormed3 : ban_command(Admin, AdminTopic, args)
  \/ \E args \in WellFormed3 : warn_command(Admin, AdminTopic, args)
  \/ \E args \in WellFormed3 : mute_command(Admin, AdminTopic, args)
  \/ \E args \in WellFormed1 : unmute_command(Admin, AdminTopic, args)
  \/ Fire
  \/ Tick
  \/ \E u \in Users : LiftBanByHand(u)
  \/ \E u \in Users : Join_chat(u)

SpecExpiry == Init /\ [][NextExpiry]_vars

\* the arguments: the five commands sent by an administrator in the right
\* place, with every argument list, well-formed or not
NextArgs ==
  \/ \E args \in Args3 : ban_command(Admin, AdminTopic, args)
  \/ \E args \in Args3 : warn_command(Admin, AdminTopic, args)
  \/ \E args \in Args1 : unwarn_command(Admin, AdminTopic, args)
  \/ \E args \in Args3 : mute_command(Admin, AdminTopic, args)
  \/ \E args \in Args1 : unmute_command(Admin, AdminTopic, args)

SpecArgs == Init /\ [][NextArgs]_vars

\* the command surface: every command and the /links buttons, from every
\* sender and every place
NextAdmin ==
  \/ \E issuer \in Issuers, origin \in Origins :
       \/ \E args \in Args3 : ban_command(issuer, origin, args)
       \/ \E args \in Args3 : warn_command(issuer, origin, args)
       \/ \E args \in Args1 : unwarn_command(issuer, origin, args)
       \/ \E args \in Args3 : mute_command(issuer, origin, args)
       \/ \E args \in Args1 : unmute_command(issuer, origin, args)
       \/ links_command(issuer, origin)
  \/ \E issuer \in Issuers, data \in CallbackData :
       links_callback(issuer, data)

SpecAdmin == Init /\ [][NextAdmin]_vars

\* the failures: the content handlers and /ban, /warn, /mute and /unwarn,
\* each with every call succeeding or with one call failing
NextFaults ==
  \/ Content
  \/ \E args \in WellFormed3 : ban_command(Admin, AdminTopic, args)
  \/ \E args \in WellFormed3 : warn_command(Admin, AdminTopic, args)
  \/ \E args \in WellFormed1 : unwarn_command(Admin, AdminTopic, args)
  \/ \E args \in WellFormed3 : mute_command(Admin, AdminTopic, args)
  \/ \E u \in Users, text \in Texts, fault \in ViolationFaults :
       handle_message_failing(u, text, fault)
  \/ \E u \in Users, name \in FileNames, fault \in ViolationFaults :
       handle_document_failing(u, name, fault)
  \/ \E args \in WellFormed3, fault \in CommandFaults :
       ban_command_failing(Admin, AdminTopic, args, fault)
  \/ \E args \in WellFormed3, fault \in CommandFaults :
       warn_command_failing(Admin, AdminTopic, args, fault)
  \/ \E args \in WellFormed3, fault \in CommandFaults :
       mute_command_failing(Admin, AdminTopic, args, fault)
  \/ \E args \in WellFormed1, fault \in UnwarnFaults :
       unwarn_command_failing(Admin, AdminTopic, args, fault)

SpecFaults == Init /\ [][NextFaults]_vars

\* the allow-list of links: /links and its buttons, with the store working
\* or failing, and the messages classified against the list
NextLinks ==
  \/ \E issuer \in Issuers : links_command(issuer, AdminTopic)
  \/ \E issuer \in Issuers, data \in CallbackData :
       links_callback(issuer, data)
  \/ \E issuer \in Issuers, data \in CallbackData,
         fault \in {"delete_link", "reload"} :
       links_callback_failing(issuer, data, fault)
  \/ \E u \in Users, text \in Texts : handle_message(u, text)

SpecLinks == Init /\ [][NextLinks]_vars

\* ------------------------------------------- handlers and their awaits
\* A handler is a coroutine: it gives control back at each await.  The
\* only await between the read of warns in process_violation and its
\* add_punishment is the send_message of the warn branch or the
\* restrict_chat_member of the mute branch, so a handling of a violation is
\* two steps here: up to that await, and from it to the end.

\* updates handled while a handler is suspended
MayDispatch_Concurrent == TRUE

\* ApplicationBuilder().token(TOKEN).build(): concurrent_updates is not
\* set, the application awaits the handler of one update before it takes
\* the next one
MayDispatch == frames = <<>>

\* process_violation up to the await that follows record = get_user(...)
process_violation_read(u, op, reason, detail) ==
  /\ Room
  /\ Len(frames) < MaxFrames
  /\ frames' = Append(frames, [user |-> u, op |-> op, reason |-> reason,
                               detail |-> detail,
                               record |-> [warns |-> WarnsRead(u)]])
  /\ UNCHANGED <<users, ALLOWED_LINKS, allowed_links, banned, members, muted,
                 tasks, now, ticks, panel, last, ALLOWED_EXTS>>

\* process_violation from that await to its end
process_violation_resume(i) ==
  /\ i \in DOMAIN frames
  /\ LET f == frames[i] IN
     IF f.record.warns = 0
     THEN /\ users' = add_punishment(users, f.user, now, "warn", f.reason, 0,
                                     "bot")
          /\ UNCHANGED muted
          /\ HandledContent(f.op, f.user, "warned",
                            <<"delete", "log", "notify", "persist">>,
                            f.detail)
     ELSE /\ restrict_chat_member(f.user, AutoMuteUntil)
          /\ users' = add_punishment(users, f.user, now, "mute", f.reason,
                                     AutoMuteMinutes, "bot")
          /\ HandledContent(f.op, f.user, "muted",
                            <<"delete", "log", "restrict", "persist",
                              "notify">>, f.detail)
  /\ frames' = Pop(frames, i)
  /\ UNCHANGED <<ALLOWED_LINKS, allowed_links, banned, members, tasks, now,
                 ticks, panel, ALLOWED_EXTS>>

handle_message_read(u, text) ==
  /\ MayDispatch
  /\ u \in members
  /\ IF HasForbidden(extract_domains(text))
     THEN process_violation_read(u, "message", ReasonLink, text)
     ELSE Clean("message", u, text)

handle_document_read(u, name) ==
  /\ MayDispatch
  /\ u \in members
  /\ IF file_ext(name) \notin ALLOWED_EXTS
     THEN process_violation_read(u, "document", ReasonFile, name)
     ELSE Clean("document", u, name)

\* The classifier of texts: every text against several allow-lists.  A
\* hostname is a concatenation of at most MaxPieces pieces.
HostPieces == {Www, <<"w">>, <<"a">>, <<"b", ".", "c">>}

RECURSIVE Flatten(_)
Flatten(ps) == IF ps = <<>> THEN <<>> ELSE ps[1] \o Flatten(Tail(ps))

ClassifyHosts ==
  {Flatten(ps) : ps \in UNION {[1..k -> HostPieces] : k \in 0..MaxPieces}}

\* texts with one URL, and texts with two URLs in both orders
ClassifyTexts ==
  {<<h>> : h \in ClassifyHosts}
    \cup {<<h1, h2>> : h1 \in {GoodHost, EvilHost, <<>>},
                       h2 \in {GoodHost, EvilHost, <<>>}}

\* the allow-lists of links the classifier is run against
LinkLists == {{GoodHost}, {GoodHost, DocsHost}, {}}

InitTexts ==
  /\ users = [u \in Users |-> NoRow]
  /\ \E links \in LinkLists : allowed_links = links /\ ALLOWED_LINKS = links
  /\ ALLOWED_EXTS = InitialExts
  /\ banned = {}
  /\ members = Users
  /\ muted = [u \in Users |-> NotMuted]
  /\ tasks = <<>>
  /\ now = 0
  /\ ticks = 0
  /\ panel = {}
  /\ frames = <<>>
  /\ last = NoUpdate

NextTexts == \E u \in Users, text \in ClassifyTexts : handle_message(u, text)

SpecTexts == InitTexts /\ [][NextTexts]_vars

\* The classifier of documents: every file name of at most MaxNameLen
\* characters against several allow-lists of extensions.
FileChars == {"p", "P", ".", "/"}

ClassifyNames == UNION {[1..k -> FileChars] : k \in 1..MaxNameLen}

\* the allow-lists of extensions the classifier is run against: rows of
\* allowed_file_extensions are stored as they were typed
ExtLists == {{<<"p">>}, {<<"P">>}, {<<"p">>, <<>>}}

InitFiles ==
  /\ users = [u \in Users |-> NoRow]
  /\ allowed_links = InitialLinks
  /\ ALLOWED_LINKS = InitialLinks
  /\ ALLOWED_EXTS \in ExtLists
  /\ banned = {}
  /\ members = Users
  /\ muted = [u \in Users |-> NotMuted]
  /\ tasks = <<>>
  /\ now = 0
  /\ ticks = 0
  /\ panel = {}
  /\ frames = <<>>
  /\ last = NoUpdate

NextFiles == \E u \in Users, name \in ClassifyNames : handle_document(u, name)

SpecFiles == InitFiles /\ [][NextFiles]_vars

\* the handlers as coroutines: violations in two steps, and the commands
\* that write the ledger, each update dispatched when the application is
\* free to take it
NextAsync ==
  \/ \E u \in Users, text \in Texts : handle_message_read(u, text)
  \/ \E u \in Users, name \in FileNames : handle_document_read(u, name)
  \/ \E i \in 1..MaxFrames : process_violation_resume(i)
  \/ MayDispatch /\ \E args \in WellFormed3 : ban_command(Admin, AdminTopic, args)
  \/ MayDispatch /\ \E args \in WellFormed3 : warn_command(Admin, AdminTopic, args)
  \/ MayDispatch /\ \E args \in WellFormed1 : unwarn_command(Admin, AdminTopic, args)
  \/ MayDispatch /\ \E args \in WellFormed3 : mute_command(Admin, AdminTopic, args)

SpecAsync == Init /\ [][NextAsync]_vars

\* the durations: /ban, /warn and /mute with the integers int() accepts as
\* the last argument, a zero and a negative one included
DurationArgs3 ==
  { << <<"7">>, <<"r">>, <<"1">> >>,
    << <<"7">>, <<"r">>, <<"0">> >>,
    << <<"7">>, <<"r">>, <<"-", "1">> >> }

NextDurations ==
  \/ \E args \in DurationArgs3 : ban_command(Admin, AdminTopic, args)
  \/ \E args \in DurationArgs3 : warn_command(Admin, AdminTopic, args)
  \/ \E args \in DurationArgs3 : mute_command(Admin, AdminTopic, args)

SpecDurations == Init /\ [][NextDurations]_vars

\* the content events: texts with no, one and several links, and documents
NextContent ==
  \/ \E u \in Users, text \in Texts \cup ClassifyTexts : handle_message(u, text)
  \/ \E u \in Users, name \in FileNames : handle_document(u, name)

SpecContent == Init /\ [][NextContent]_vars

\* ============================================================== claims
CountType(h, t) == Cardinality({i \in DOMAIN h : h[i].type = t})

Types(h) == [i \in DOMAIN h |-> h[i].type]

Range(f) == {f[i] : i \in DOMAIN f}

\* a token int() rejects, and the argument lists a command rejects
BadToken(tok) == tok = <<>> \/ \E i \in DOMAIN tok : tok[i] \notin Digits

Malformed3 ==
  {args \in Args3 :
     Len(args) < 3 \/ BadToken(args[1]) \/ BadToken(args[Len(args)])}

Malformed1 == {args \in Args1 : args = <<>> \/ BadToken(args[1])}

\* the step handles a message or a document of u that breaks the rules
ViolationBy(u) ==
  \/ /\ last'.op = "message"
     /\ \E text \in Texts :
          /\ \E i \in DOMAIN text : text[i] \in {EvilHost}
          /\ handle_message(u, text)
  \/ /\ last'.op = "document"
     /\ \E name \in FileNames :
          /\ name \notin {<<"a", ".", "p", "d", "f">>}
          /\ handle_document(u, name)

\* the step appends exactly one entry to the history of u
AppendedOne(u) ==
  /\ users'[u].exists
  /\ Len(users'[u].history) = Len(users[u].history) + 1
  /\ SubSeq(users'[u].history, 1, Len(users[u].history)) = users[u].history

NewEntry(u) == users'[u].history[Len(users'[u].history)]

\* h without its i-th entry
Without(h, i) == [j \in 1..(Len(h) - 1) |-> IF j < i THEN h[j] ELSE h[j + 1]]

\* ---- C1: for every identity the stored warns counter equals the number
\* of 'warn' entries in the stored history, after any sequence of automatic
\* violations and /warn, /ban, /mute, /unwarn, /unmute commands.
C1_WarnsMatchHistory ==
  \A u \in Users : users[u].warns = CountType(users[u].history, "warn")

\* an /unwarn has just removed one of two warns, with a third entry around
C1_Witness ==
  \E u \in Users :
    /\ last.op = "unwarn" /\ last.reply = "unwarned"
    /\ users[u].warns = 1
    /\ Len(users[u].history) = 2

\* ---- C2: a violation by an identity with no row or with warns = 0
\* appends exactly one 'warn' entry and restricts nobody; the next handled
\* violation of that identity appends exactly one 'mute' entry of duration
\* 60, leaves warns at 1 and restricts the identity until now + 60 minutes.
C2_WarnThenMute ==
  [][\A u \in Users :
       ViolationBy(u) =>
         /\ users[u].warns = 0 =>
              /\ AppendedOne(u)
              /\ NewEntry(u).type = "warn"
              /\ users'[u].warns = 1
              /\ muted' = muted
         /\ (last.op \in {"message", "document"} /\ last.target = u
               /\ last.reply = "warned") =>
              /\ AppendedOne(u)
              /\ NewEntry(u).type = "mute"
              /\ NewEntry(u).duration = 60
              /\ users[u].warns = 1
              /\ users'[u].warns = 1
              /\ muted'[u] = [on |-> TRUE, until |-> now + 60 * 60]]_vars

\* a link earned the warn, then a file earned the mute
C2_Witness ==
  \E u \in Users :
    /\ last.op = "document" /\ last.reply = "muted" /\ last.target = u
    /\ Types(users[u].history) = <<"warn", "mute">>
    /\ users[u].history[1].reason = ReasonLink
    /\ users[u].history[2].reason = ReasonFile
    /\ users[u].warns = 1
    /\ muted[u].on

\* ---- C3: /unwarn on an identity with no row or with warns = 0 answers
\* 'nothing to remove' and leaves the ledger as it is; with warns >= 1 it
\* takes 1 off warns and removes the last 'warn' entry of the history and
\* nothing else, the other entries keeping their order.
C3_UnwarnRemovesLastWarn ==
  [][\A u \in Users : \A args \in Args1 \ Malformed1 :
       (ParseArgs1(args).target = u
          /\ unwarn_command(Admin, AdminTopic, args)) =>
         LET r == users[u] IN
         IF ~r.exists \/ r.warns = 0
         THEN /\ users' = users
              /\ last'.reply = "nothing"
         ELSE /\ users'[u].warns = r.warns - 1
              /\ users'[u].bans = r.bans
              /\ \E i \in DOMAIN r.history :
                   /\ r.history[i].type = "warn"
                   /\ \A j \in (i + 1)..Len(r.history) :
                        r.history[j].type # "warn"
                   /\ users'[u].history = Without(r.history, i)]_vars

\* the warn was removed from between a mute and a ban
C3_Witness ==
  \E u \in Users :
    /\ last.op = "unwarn" /\ last.reply = "unwarned"
    /\ Types(users[u].history) = <<"mute", "ban">>
    /\ users[u].warns = 0

\* a schedule_unban task wakes up and ends in this step
Fires(i) ==
  /\ i \in DOMAIN tasks
  /\ tasks[i].state = "sleeping"
  /\ tasks'[i].state = "done"

C5_BanAppendsAndSchedules ==
  [][/\ \A u \in Users : \A args \in Args3 \ Malformed3 :
          (ParseArgs3(args).target = u
             /\ ban_command(Admin, AdminTopic, args)) =>
            LET hours == ParseArgs3(args).duration IN
            /\ AppendedOne(u)
            /\ NewEntry(u).type = "ban"
            /\ NewEntry(u).duration = hours
            /\ users'[u].bans = users[u].bans + 1
            /\ users'[u].warns = users[u].warns
            /\ Len(tasks') = Len(tasks) + 1
            /\ SubSeq(tasks', 1, Len(tasks)) = tasks
            /\ tasks'[Len(tasks')].user = u
            /\ tasks'[Len(tasks')].action = "unban"
            /\ tasks'[Len(tasks')].state = "sleeping"
            /\ tasks'[Len(tasks')].fire_at = now + hours * 60 * 60
     /\ \A i \in DOMAIN tasks :
          Fires(i) =>
            /\ now >= tasks[i].fire_at
            /\ tasks'[i].log = "info" => tasks[i].user \notin banned']_vars

\* a second ban of the identity, after the expiry of the first has fired
C5_Witness ==
  \E u \in Users :
    /\ last.op = "ban" /\ last.reply = "banned" /\ last.target = u
    /\ users[u].bans = 2
    /\ users[u].warns = 1
    /\ Len(tasks) = 2
    /\ tasks[1].state = "done"
    /\ tasks[2].state = "sleeping" /\ tasks[2].user = u
    /\ u \in banned

\* ---- C6 (as stated): the ledger, the allow-list and the platform's bans
\* and restrictions change through a command only when its sender is an
\* administrator of the frontend chat and it comes from the bot topic of
\* the admin group.
C6_OnlyAdminsChangeState ==
  [][<<users, allowed_links, ALLOWED_LINKS, banned, members, muted>>'
        # <<users, allowed_links, ALLOWED_LINKS, banned, members, muted>>
       => /\ last'.issuer \in FrontendAdmins
          /\ last'.chat = ADMIN_GROUP_ID
          /\ last'.thread = BOT_THREAD_ID]_vars

\* ---- C7: a command with too few arguments, a non-integer identity or a
\* non-integer duration answers with a message and changes nothing: not the
\* ledger, not a ban or a restriction, not the expiries.
C7_MalformedChangesNothing ==
  [][/\ \A args \in Malformed3 :
          (\/ ban_command(Admin, AdminTopic, args)
           \/ warn_command(Admin, AdminTopic, args)
           \/ mute_command(Admin, AdminTopic, args)) =>
            /\ UNCHANGED <<users, banned, members, muted, tasks,
                           allowed_links, ALLOWED_LINKS>>
            /\ "reply" \in Range(last'.effects)
     /\ \A args \in Malformed1 :
          (\/ unwarn_command(Admin, AdminTopic, args)
           \/ unmute_command(Admin, AdminTopic, args)) =>
            /\ UNCHANGED <<users, banned, members, muted, tasks,
                           allowed_links, ALLOWED_LINKS>>
            /\ "reply" \in Range(last'.effects)]_vars

\* a /mute with a non-integer duration was answered, the ledger being
\* non-empty
C7_Witness ==
  /\ last.op = "mute" /\ last.reply = "bad_args"
  /\ "reply" \in Range(last.effects)
  /\ \E u \in Users : Len(users[u].history) = 2

\* ---- C8: the automatic escalation has two tiers.  No step that appends
\* a 'mute' entry changes warns; every violation of an identity with
\* warns >= 1 appends a 'mute' entry of duration 60 again; no violation
\* appends a 'ban' entry, changes bans, bans anybody or registers an expiry.
C8_TwoTiers ==
  [][\A u \in Users :
       /\ (AppendedOne(u) /\ NewEntry(u).type = "mute") =>
            users'[u].warns = users[u].warns
       /\ ViolationBy(u) =>
            /\ AppendedOne(u)
            /\ NewEntry(u).type \in {"warn", "mute"}
            /\ NewEntry(u).issued_by = "bot"
            /\ users'[u].bans = users[u].bans
            /\ banned' = banned
            /\ tasks' = tasks
            /\ users[u].warns >= 1 =>
                 /\ NewEntry(u).type = "mute"
                 /\ NewEntry(u).duration = 60
                 /\ users'[u].warns = users[u].warns]_vars

\* an identity muted a second time by the bot
C8_Witness ==
  \E u \in Users :
    /\ Types(users[u].history) = <<"warn", "mute", "mute">>
    /\ \A i \in 1..3 : users[u].history[i].issued_by = "bot"
    /\ users[u].warns = 1
    /\ users[u].bans = 0

\* the step is a well-formed /mute of u
MutesByCommand(u, args) ==
  /\ last'.op = "mute"
  /\ args \in Args3 \ Malformed3
  /\ ParseArgs3(args).target = u
  /\ mute_command(Admin, AdminTopic, args)

C10_FireIsIdempotentAndFinal ==
  [][\A i \in DOMAIN tasks :
       /\ Fires(i) =>
            /\ tasks'[i].calls = tasks[i].calls + 1
            /\ tasks'[i].log \in {"info", "error"}
            /\ tasks[i].user \notin banned =>
                 UNCHANGED <<banned, members, muted, users>>
            /\ tasks'[i].log = "error" =>
                 UNCHANGED <<banned, members, muted, users, last, now>>
       /\ (tasks[i].state = "sleeping" /\ tasks'[i].calls > tasks[i].calls)
            => tasks'[i].state = "done"
       /\ tasks[i].state = "done" =>
            (i \in DOMAIN tasks' /\ tasks'[i] = tasks[i])]_vars

\* the unban call of one expiry failed, leaving the identity banned; the
\* expiry of a second ban fired after the ban was lifted by hand and the
\* identity had joined again
C10_Witness ==
  /\ Len(tasks) = 2
  /\ tasks[1].state = "done" /\ tasks[1].log = "error"
  /\ tasks[2].state = "done" /\ tasks[2].log = "info"
  /\ tasks[2].user \in members

\* the step is a handling, by the content handlers or by /ban, /warn, /mute
\* or /unwarn, in which the call named by fault fails
FailingStep(fault) ==
  \/ \E u \in Users, text \in Texts : handle_message_failing(u, text, fault)
  \/ \E u \in Users, name \in FileNames :
       handle_document_failing(u, name, fault)
  \/ \E args \in WellFormed3 :
       \/ ban_command_failing(Admin, AdminTopic, args, fault)
       \/ warn_command_failing(Admin, AdminTopic, args, fault)
       \/ mute_command_failing(Admin, AdminTopic, args, fault)
  \/ \E args \in WellFormed1 :
       unwarn_command_failing(Admin, AdminTopic, args, fault)

\* the replies and notices that tell of a punishment given or taken back
Reported == {"warned", "muted", "banned", "unwarned"}

\* ---- C11 (as stated): when a read or a write of the store fails during
\* an append of a punishment or an /unwarn, the failure is surfaced and the
\* stored record is unchanged, and nothing is reported of counters or
\* history that were not written or read: either the handling ends in the
\* error with the ledger as it was, or what it reports is what the store
\* holds.
C11_StoreFailureSurfaced ==
  [][\A fault \in StoreFaults :
       FailingStep(fault) =>
         \/ last'.reply = "raised" /\ users' = users
         \/ last'.reply \in Reported /\ users' # users
         \/ /\ last'.reply = "nothing" /\ users' = users
            /\ users[last'.target].warns = 0]_vars

\* ---- C12 (as stated): a delete, log, notify, restrict or ban call that
\* fails while a violation or /ban, /warn, /mute is handled does not
\* propagate, and the ledger afterwards is the one the handling leaves when
\* every call succeeds.
C12_TransportFailureKeepsLedger ==
  [][\A fault \in {"delete", "log", "notify", "restrict", "ban"} :
       /\ \A u \in Users :
            (\/ \E text \in Texts : handle_message_failing(u, text, fault)
             \/ \E name \in FileNames :
                  handle_document_failing(u, name, fault)) =>
              /\ last'.reply # "raised"
              /\ AppendedOne(u)
              /\ NewEntry(u).type
                   = IF users[u].warns = 0 THEN "warn" ELSE "mute"
       /\ \A args \in WellFormed3 :
            LET u == ParseArgs3(args).target IN
            /\ ban_command_failing(Admin, AdminTopic, args, fault) =>
                 /\ last'.reply # "raised"
                 /\ AppendedOne(u) /\ NewEntry(u).type = "ban"
            /\ warn_command_failing(Admin, AdminTopic, args, fault) =>
                 /\ last'.reply # "raised"
                 /\ AppendedOne(u) /\ NewEntry(u).type = "warn"
            /\ mute_command_failing(Admin, AdminTopic, args, fault) =>
                 /\ last'.reply # "raised"
                 /\ AppendedOne(u) /\ NewEntry(u).type = "mute"]_vars

\* the place of a call among the calls a handler made, 0 when it was not
\* made
Place(calls, c) == IF Made(calls, c) THEN IndexOf(calls, c) ELSE 0

\* ---- C16 (as stated): in handling one violation the content is deleted,
\* then the ledger entry is persisted, then the restriction is applied,
\* then the offender is notified: the entry is persisted before any
\* restriction or notice.
C16_PersistBeforeRestrictAndNotify ==
  [][\A u \in Users :
       ViolationBy(u) =>
         LET calls == last'.effects IN
         /\ Made(calls, "delete") /\ Made(calls, "persist")
         /\ Place(calls, "delete") < Place(calls, "persist")
         /\ Made(calls, "restrict") =>
              Place(calls, "persist") < Place(calls, "restrict")
         /\ Made(calls, "notify") =>
              /\ Place(calls, "persist") < Place(calls, "notify")
              /\ Place(calls, "restrict") < Place(calls, "notify")]_vars

\* the handling punished the sender
Punished(update) == update.reply \in {"warned", "muted"}

\* a hostname without its leading "www." label
StripLeadingWww(host) ==
  IF Len(host) >= 4 /\ SubSeq(host, 1, 4) = <<"w", "w", "w", ".">>
  THEN SubSeq(host, 5, Len(host))
  ELSE host

\* ---- C13 (as stated): a text is reported as a link violation if and only
\* if at least one of its URLs resolves, with only a leading "www." label
\* stripped, to a hostname that is not in the allow-list.
C13_ViolationIffHostAbsent ==
  [][last'.op = "message" =>
       (Punished(last') <=>
          \E i \in DOMAIN last'.content :
            /\ StripLeadingWww(last'.content[i]) # <<>>
            /\ StripLeadingWww(last'.content[i]) \notin ALLOWED_LINKS)]_vars

\* the characters of s after its last ".", s itself being without "."
\* giving the empty string
AfterLastDot(s) ==
  IF \E i \in DOMAIN s : s[i] = "."
  THEN LET d == CHOOSE i \in DOMAIN s :
                  s[i] = "." /\ \A j \in (i + 1)..Len(s) : s[j] # "."
       IN  SubSeq(s, d + 1, Len(s))
  ELSE <<>>

Lowered(s) == [i \in DOMAIN s |-> IF s[i] = "P" THEN "p" ELSE s[i]]

\* ---- C14 (as stated): a document is reported as a file violation if and
\* only if the characters after the last "." of its name (none when the
\* name has no "."), compared without regard to case, are not in the
\* allow-list of extensions.
C14_ViolationIffExtensionAbsent ==
  [][last'.op = "document" =>
       (Punished(last') <=>
          Lowered(AfterLastDot(last'.content))
            \notin {Lowered(e) : e \in ALLOWED_EXTS})]_vars

\* the part of a name after its last "/"
BaseName(s) ==
  IF \E i \in DOMAIN s : s[i] = "/"
  THEN LET d == CHOOSE i \in DOMAIN s :
                  s[i] = "/" /\ \A j \in (i + 1)..Len(s) : s[j] # "/"
       IN  SubSeq(s, d + 1, Len(s))
  ELSE s

\* the last "." of s has a character other than "." before it
HasStem(s) ==
  \E i \in DOMAIN s :
    /\ s[i] = "." /\ \A j \in (i + 1)..Len(s) : s[j] # "."
    /\ \E j \in 1..(i - 1) : s[j] # "."

\* ---- C14 (amended): the extension of a name is taken from the part
\* after its last "/": the characters after the last "." there, in lower
\* case, and the empty string when that part has no "." or has nothing but
\* dots before its last ".".  The document is a violation if and only if
\* this extension is not among the allow-list entries as they are stored.
C14_ViolationIffSplitExtAbsent ==
  [][last'.op = "document" =>
       (Punished(last') <=>
          (IF HasStem(BaseName(last'.content))
           THEN Lowered(AfterLastDot(BaseName(last'.content)))
           ELSE <<>>) \notin ALLOWED_EXTS)]_vars

\* a document named ".p" was punished although "p" is allowed, and so was
\* a document named "p.p" where the allowed entry is stored as "P"
C14_Witness ==
  /\ last.op = "document" /\ Punished(last)
  /\ \/ last.content = <<".", "p">> /\ <<"p">> \in ALLOWED_EXTS
     \/ last.content = <<"p", ".", "p">> /\ ALLOWED_EXTS = {<<"P">>}

\* ---- C15 (as stated): after every completed removal of an allow-listed
\* hostname the snapshot the classifier uses equals the hostnames stored;
\* a step changes the snapshot only together with the store, and a failed
\* reload leaves it as it was.
C15_SnapshotEqualsStore ==
  [][/\ last'.reply = "deleted" => ALLOWED_LINKS' = allowed_links'
     /\ ALLOWED_LINKS' # ALLOWED_LINKS =>
          /\ allowed_links' # allowed_links
          /\ ALLOWED_LINKS' = allowed_links'
     /\ last'.failed = "reload" => ALLOWED_LINKS' = ALLOWED_LINKS]_vars

\* the expiry registered by the most recent /ban of u
LatestBan(u) ==
  CHOOSE k \in DOMAIN tasks :
    /\ tasks[k].user = u
    /\ \A j \in DOMAIN tasks : tasks[j].user = u => j <= k

\* ---- C19 (as stated): an expiry lifts the ban of an identity only when
\* the duration of the most recent /ban of that identity has elapsed: the
\* timer of an earlier ban does not lift a later ban early.
C19_NoEarlyUnban ==
  [][\A i \in DOMAIN tasks :
       (/\ Fires(i)
        /\ tasks[i].user \in banned
        /\ tasks[i].user \notin banned') =>
         now >= tasks[LatestBan(tasks[i].user)].fire_at]_vars

\* ---- C20 (as stated): in every history the entry ids are pairwise
\* distinct and strictly increasing in history order, two punishments
\* issued within the same second included.
C20_IdsStrictlyIncrease ==
  \A u \in Users :
    \A i, j \in DOMAIN users[u].history :
      i < j => users[u].history[i].id < users[u].history[j].id

C21_DurationsNotNegative ==
  /\ \A u \in Users : \A i \in DOMAIN users[u].history :
       /\ users[u].history[i].duration >= 0
       /\ users[u].history[i].type = "warn" =>
            users[u].history[i].duration = 0
  /\ \A i \in DOMAIN tasks : tasks[i].hours >= 0

\* how many times a call occurs among the calls of a handling
Times(calls, c) == Cardinality({i \in DOMAIN calls : calls[i] = c})

\* ---- C22: one content event punishes at most once: the handling of a
\* text or a document leaves every record as it is or appends exactly one
\* entry to the record of the sender, and deletes, notifies and restricts
\* at most once, a text with several disallowed links included; a text
\* with no disallowed link and a document with an allowed extension leave
\* the ledger and the restrictions as they are.
C22_OneEventOnePunishment ==
  [][last'.op \in {"message", "document"} =>
       /\ \A u \in Users :
            \/ users'[u] = users[u]
            \/ u = last'.target /\ AppendedOne(u)
       /\ \A c \in {"delete", "log", "notify", "restrict", "persist"} :
            Times(last'.effects, c) <= 1
       /\ (\/ /\ last'.op = "message"
              /\ ~HasForbidden(extract_domains(last'.content))
           \/ /\ last'.op = "document"
              /\ file_ext(last'.content) \in ALLOWED_EXTS) =>
            /\ users' = users
            /\ muted' = muted
            /\ last'.effects = <<>>]_vars

\* a text with the same disallowed link twice was handled for a clean
\* identity: one warn, nobody restricted
C22_Witness ==
  \E u \in Users :
    /\ last.op = "message" /\ last.target = u
    /\ last.content = <<EvilHost, EvilHost>>
    /\ last.reply = "warned"
    /\ Len(users[u].history) = 1
    /\ ~muted[u].on

====
